---- MODULE Spec2Model ----
(***************************************************************************)
(* backend_common/testing.py: the fake Hawk header codec (build_header,    *)
(* parse_header), the two mocked authentication endpoints                  *)
(* (mock_auth_taskcluster, mock_auth_auth0) and the pytest fixture that    *)
(* installs them around each test (client, configure_app).                 *)
(*                                                                         *)
(* Text is a sequence of code points, bytes are a sequence of 0..255.      *)
(***************************************************************************)
EXTENDS Integers, Sequences, FiniteSets, TLC

VARIABLES
    app,        \* capabilities of the application under test
    pc,         \* position of the test execution / of the pure-function run
    active,     \* requests_mock is started (the `with requests_mock:` is open)
    bindings,   \* callbacks registered on requests_mock
    dbCalls,    \* calls received by app.db during this test execution
    outcome,    \* result of the test body
    request,    \* the call being made (its inputs)
    response    \* what the called function returned or raised

vars == <<app, pc, active, bindings, dbCalls, outcome, request, response>>

(***************************************************************************)
(* Characters and text                                                     *)
(***************************************************************************)
Ascii ==
    <<" ", "!", "\"", "#", "$", "%", "&", "'", "(", ")", "*", "+", ",", "-", ".", "/",
      "0", "1", "2", "3", "4", "5", "6", "7", "8", "9", ":", ";", "<", "=", ">", "?",
      "@", "A", "B", "C", "D", "E", "F", "G", "H", "I", "J", "K", "L", "M", "N", "O",
      "P", "Q", "R", "S", "T", "U", "V", "W", "X", "Y", "Z", "[", "\\", "]", "^", "_",
      "<backtick>", "a", "b", "c", "d", "e", "f", "g", "h", "i", "j", "k", "l", "m", "n", "o",
      "p", "q", "r", "s", "t", "u", "v", "w", "x", "y", "z", "{", "|", "}", "~">>

\* Code point of a printable ASCII character.
Ord(c) == 31 + (CHOOSE i \in 1..Len(Ascii) : Ascii[i] = c)

\* A text literal, written as its characters.
S(lit) == [i \in 1..Len(lit) |-> Ord(lit[i])]

StartsWith(s, prefix) ==
    /\ Len(s) >= Len(prefix)
    /\ SubSeq(s, 1, Len(prefix)) = prefix

RECURSIVE Join(_, _)
Join(sep, items) ==
    IF Len(items) = 0 THEN <<>>
    ELSE IF Len(items) = 1 THEN items[1]
    ELSE items[1] \o sep \o Join(sep, Tail(items))

\* str(n) for a non-negative int
RECURSIVE StrInt(_)
StrInt(n) ==
    IF n < 10 THEN <<48 + n>>
    ELSE StrInt(n \div 10) \o <<48 + (n % 10)>>

IsDigit(c) == c >= 48 /\ c <= 57
IsAsciiAlpha(c) == (c >= 65 /\ c <= 90) \/ (c >= 97 /\ c <= 122)

(***************************************************************************)
(* Python values: None, str, int, bool, list, dict, tagged by type.        *)
(* A dict is a function from its keys (text) to values, so dict equality   *)
(* ignores key order as in Python.                                         *)
(***************************************************************************)
None == [t |-> "None"]
PyStr(s) == [t |-> "str", v |-> s]
PyInt(n) == [t |-> "int", v |-> n]
PyBool(b) == [t |-> "bool", v |-> b]
PyFloat(lexeme) == [t |-> "float", v |-> lexeme]
PyList(items) == [t |-> "list", v |-> items]
PyDict(f) == [t |-> "dict", v |-> f]
EmptyDict == PyDict(<<>>)

\* A call either returns a value or raises an exception.
Return(v) == [raised |-> FALSE, value |-> v]
Raise(type, message) == [raised |-> TRUE, type |-> type, message |-> message]

(***************************************************************************)
(* Messages of the exceptions raised                                       *)
(***************************************************************************)
\* 'Missing Hawk prefix'
MsgMissingHawkPrefix ==
    S(<<"M", "i", "s", "s", "i", "n", "g", " ", "H", "a", "w", "k", " ", "p", "r",
        "e", "f", "i", "x">>)

\* 'Missing header part '
MsgMissingHeaderPart ==
    S(<<"M", "i", "s", "s", "i", "n", "g", " ", "h", "e", "a", "d", "e", "r", " ",
        "p", "a", "r", "t", " ">>)

(***************************************************************************)
(* base64.b64encode / base64.b64decode (binascii, non-strict mode)         *)
(***************************************************************************)
\* Value of a character of the standard alphabet, 64 for any other character.
B64Val(c) ==
    IF c >= 65 /\ c <= 90 THEN c - 65
    ELSE IF c >= 97 /\ c <= 122 THEN c - 71
    ELSE IF IsDigit(c) THEN c + 4
    ELSE IF c = 43 THEN 62
    ELSE IF c = 47 THEN 63
    ELSE 64

B64Chr(v) ==
    IF v < 26 THEN v + 65
    ELSE IF v < 52 THEN v + 71
    ELSE IF v < 62 THEN v - 4
    ELSE IF v = 62 THEN 43
    ELSE 47

\* binascii.b2a_base64: every three bytes give four characters, the last
\* group is padded with '='.
b64encode(bytes) ==
    LET n == Len(bytes)
        byte(k) == IF k <= n THEN bytes[k] ELSE 0
        char(j) ==
            LET g == 3 * ((j - 1) \div 4)
                r == (j - 1) % 4
            IN
            IF r = 0 THEN B64Chr(byte(g + 1) \div 4)
            ELSE IF r = 1 THEN B64Chr((byte(g + 1) % 4) * 16 + byte(g + 2) \div 16)
            ELSE IF r = 2 THEN
                IF g + 2 > n THEN 61
                ELSE B64Chr((byte(g + 2) % 16) * 4 + byte(g + 3) \div 64)
            ELSE IF g + 3 > n THEN 61 ELSE B64Chr(byte(g + 3) % 64)
    IN [j \in 1..(4 * ((n + 2) \div 3)) |-> char(j)]

\* binascii.a2b_base64 without strict_mode.  Its loop skips the characters
\* outside the alphabet and counts the data characters (quad_pos is their
\* number modulo 4) and the '=' since the last data character (pads, counted
\* when quad_pos >= 2); it ends at the first '=' where quad_pos >= 2 and
\* quad_pos + pads >= 4, with the bytes of the data characters before it.  At
\* the end of the input, data left in an incomplete quad is an error.
IsB64Data(c) == B64Val(c) < 64

\* The data characters before position j.
DataBefore(data, j) == Cardinality({k \in 1..(j - 1) : IsB64Data(data[k])})

\* The '=' at or before j, since the last data character before j.
PadsAt(data, j) ==
    Cardinality({k \in 1..j : data[k] = 61 /\ \A m \in k..j : ~IsB64Data(data[m])})

\* Whether the loop ends at position j, given that it got there.
PadEnds(data, j, quad_pos) ==
    data[j] = 61 /\ quad_pos >= 2 /\ quad_pos + PadsAt(data, j) >= 4

\* The position where the loop ends: the first ending pad, or past the input.
B64Stop(data) ==
    IF \E j \in 1..Len(data) : PadEnds(data, j, DataBefore(data, j) % 4)
    THEN CHOOSE j \in 1..Len(data) :
            /\ PadEnds(data, j, DataBefore(data, j) % 4)
            /\ \A k \in 1..(j - 1) : ~PadEnds(data, k, DataBefore(data, k) % 4)
    ELSE Len(data) + 1

\* The bytes of the values v of the data characters.
B64Bytes(v, padded) ==
    IF ~padded /\ Len(v) % 4 # 0
    THEN Raise("binascii.Error",
               S(<<"I", "n", "c", "o", "r", "r", "e", "c", "t", " ", "p", "a", "d", "d",
                   "i", "n", "g">>))
    ELSE Return([k \in 1..((Len(v) * 6) \div 8) |->
                    LET g == 4 * ((k - 1) \div 3)
                        r == (k - 1) % 3
                    IN IF r = 0 THEN v[g + 1] * 4 + v[g + 2] \div 16
                       ELSE IF r = 1 THEN (v[g + 2] % 16) * 16 + v[g + 3] \div 4
                       ELSE (v[g + 3] % 4) * 64 + v[g + 4]])

a2b_base64(data, stop) ==
    B64Bytes([k \in 1..DataBefore(data, stop) |->
                B64Val(SelectSeq(SubSeq(data, 1, stop - 1), IsB64Data)[k])],
             stop <= Len(data))

\* base64.b64decode(s) of a str: the str must be ASCII.
b64decode(s) ==
    IF \E i \in 1..Len(s) : s[i] > 127
    \* 'string argument should contain only ASCII characters'
    THEN Raise("ValueError",
        S(<<"s", "t", "r", "i", "n", "g", " ", "a", "r", "g", "u", "m", "e",
            "n", "t", " ", "s", "h", "o", "u", "l", "d", " ", "c", "o", "n",
            "t", "a", "i", "n", " ", "o", "n", "l", "y", " ", "A", "S", "C",
            "I", "I", " ", "c", "h", "a", "r", "a", "c", "t", "e", "r", "s">>))
    ELSE a2b_base64(s, B64Stop(s))

(***************************************************************************)
(* str.encode('utf-8') and bytes.decode('utf-8')                           *)
(***************************************************************************)
IsCont(bytes, i) == i <= Len(bytes) /\ bytes[i] >= 128 /\ bytes[i] <= 191

\* The end of the run of values below `limit` that starts at s[i].
RunBelow(s, i, limit) ==
    IF i > Len(s) THEN i
    ELSE CHOOSE j \in i..(Len(s) + 1) :
            /\ j = Len(s) + 1 \/ s[j] >= limit
            /\ \A k \in i..(j - 1) : s[k] < limit

\* One call decodes the ASCII run at i and the sequence after it, at j.
RECURSIVE utf8_decode(_, _, _)
Utf8Sequence(bytes, j, text) ==
    IF j > Len(bytes) THEN Return(text)
    ELSE IF bytes[j] >= 194 /\ bytes[j] <= 223 /\ IsCont(bytes, j + 1)
    THEN utf8_decode(bytes, j + 2,
                     Append(text, (bytes[j] - 192) * 64 + (bytes[j + 1] - 128)))
    ELSE IF /\ bytes[j] >= 224 /\ bytes[j] <= 239
            /\ IsCont(bytes, j + 1) /\ IsCont(bytes, j + 2)
            /\ (bytes[j] = 224 => bytes[j + 1] >= 160)
            /\ (bytes[j] = 237 => bytes[j + 1] <= 159)
    THEN utf8_decode(bytes, j + 3,
                     Append(text, (bytes[j] - 224) * 4096 + (bytes[j + 1] - 128) * 64
                                  + (bytes[j + 2] - 128)))
    ELSE IF /\ bytes[j] >= 240 /\ bytes[j] <= 244
            /\ IsCont(bytes, j + 1) /\ IsCont(bytes, j + 2) /\ IsCont(bytes, j + 3)
            /\ (bytes[j] = 240 => bytes[j + 1] >= 144)
            /\ (bytes[j] = 244 => bytes[j + 1] <= 143)
    THEN utf8_decode(bytes, j + 4,
                     Append(text, (bytes[j] - 240) * 262144 + (bytes[j + 1] - 128) * 4096
                                  + (bytes[j + 2] - 128) * 64 + (bytes[j + 3] - 128)))
    \* "'utf-8' codec can't decode byte"
    ELSE Raise("UnicodeDecodeError",
        S(<<"'", "u", "t", "f", "-", "8", "'", " ", "c", "o", "d", "e", "c",
            " ", "c", "a", "n", "'", "t", " ", "d", "e", "c", "o", "d", "e",
            " ", "b", "y", "t", "e">>))

utf8_decode(bytes, i, out) ==
    Utf8Sequence(bytes, RunBelow(bytes, i, 128),
                 out \o SubSeq(bytes, i, RunBelow(bytes, i, 128) - 1))

\* One call encodes the ASCII run at i and the character after it.
RECURSIVE utf8_encode_from(_, _)
Utf8Char(c) ==
    IF c < 2048 THEN <<192 + c \div 64, 128 + (c % 64)>>
    ELSE IF c < 65536 THEN
        <<224 + c \div 4096, 128 + ((c \div 64) % 64), 128 + (c % 64)>>
    ELSE <<240 + c \div 262144, 128 + ((c \div 4096) % 64),
           128 + ((c \div 64) % 64), 128 + (c % 64)>>

utf8_encode_from(s, i) ==
    LET j == RunBelow(s, i, 128) IN
    IF j > Len(s) THEN SubSeq(s, i, j - 1)
    ELSE SubSeq(s, i, j - 1) \o Utf8Char(s[j]) \o utf8_encode_from(s, j + 1)

utf8_encode(s) == utf8_encode_from(s, 1)

(***************************************************************************)
(* json.dumps(obj, sort_keys=True)                                         *)
(***************************************************************************)
HexDigit(v) == IF v < 10 THEN 48 + v ELSE 87 + v

\* One character inside a JSON string, ensure_ascii=True.
EscapeChar(c) ==
    IF c = 34 THEN <<92, 34>>
    ELSE IF c = 92 THEN <<92, 92>>
    ELSE IF c = 10 THEN <<92, 110>>
    ELSE IF c = 13 THEN <<92, 114>>
    ELSE IF c = 9 THEN <<92, 116>>
    ELSE IF c = 8 THEN <<92, 98>>
    ELSE IF c = 12 THEN <<92, 102>>
    ELSE IF c >= 32 /\ c <= 126 THEN <<c>>
    ELSE <<92, 117, HexDigit(c \div 4096), HexDigit((c \div 256) % 16),
           HexDigit((c \div 16) % 16), HexDigit(c % 16)>>

\* Whether ensure_ascii leaves the character as it is.
IsPlain(c) == c >= 32 /\ c <= 126 /\ c # 34 /\ c # 92

\* The end of the run of plain characters that starts at s[i].
PlainRunEnd(s, i) ==
    CHOOSE j \in i..(Len(s) + 1) :
        /\ j = Len(s) + 1 \/ ~IsPlain(s[j])
        /\ \A k \in i..(j - 1) : IsPlain(s[k])

\* One call copies the run of plain characters at i and escapes the
\* character after it.
RECURSIVE EscapeFrom(_, _)
EscapeFrom(s, i) ==
    LET j == PlainRunEnd(s, i) IN
    IF i > Len(s) THEN <<>>
    ELSE IF j > Len(s) THEN SubSeq(s, i, j - 1)
    ELSE SubSeq(s, i, j - 1) \o EscapeChar(s[j]) \o EscapeFrom(s, j + 1)

encode_basestring_ascii(s) == <<34>> \o EscapeFrom(s, 1) \o <<34>>

\* a < b for two texts, by code point.
RECURSIVE TextLess(_, _)
TextLess(a, b) ==
    IF Len(b) = 0 THEN FALSE
    ELSE IF Len(a) = 0 THEN TRUE
    ELSE IF a[1] # b[1] THEN a[1] < b[1]
    ELSE TextLess(Tail(a), Tail(b))

\* min(keys)
LeastKey(keys) == CHOOSE k \in keys : \A o \in keys \ {k} : TextLess(k, o)

\* sorted(keys)
RECURSIVE SortedKeys(_)
SortedKeys(keys) ==
    IF keys = {} THEN <<>>
    ELSE <<LeastKey(keys)>> \o SortedKeys(keys \ {LeastKey(keys)})

RECURSIVE json_dumps(_)
json_dumps(obj) ==
    IF obj.t = "None" THEN <<110, 117, 108, 108>>
    ELSE IF obj.t = "bool" THEN
        IF obj.v THEN <<116, 114, 117, 101>> ELSE <<102, 97, 108, 115, 101>>
    ELSE IF obj.t = "int" THEN
        IF obj.v < 0 THEN <<45>> \o StrInt(-obj.v) ELSE StrInt(obj.v)
    ELSE IF obj.t = "float" THEN obj.v
    ELSE IF obj.t = "str" THEN encode_basestring_ascii(obj.v)
    ELSE IF obj.t = "list" THEN
        <<91>> \o Join(<<44, 32>>, [i \in 1..Len(obj.v) |-> json_dumps(obj.v[i])]) \o <<93>>
    ELSE
        LET keys == SortedKeys(DOMAIN obj.v) IN
        <<123>> \o Join(<<44, 32>>,
                        [i \in 1..Len(keys) |->
                            encode_basestring_ascii(keys[i]) \o <<58, 32>>
                            \o json_dumps(obj.v[keys[i]])])
                \o <<125>>

(***************************************************************************)
(* json.loads: the scanner of json.decoder / json.scanner.  A scan returns *)
(* [ok, v, i]: whether a value was read, the value, the next position.     *)
(* Floats keep their lexeme; \u escapes are read without surrogate pairs.  *)
(***************************************************************************)
ScanOk(v, i) == [ok |-> TRUE, v |-> v, i |-> i]
ScanFail(i) == [ok |-> FALSE, v |-> None, i |-> i]

\* s[i], or -1 past the end.
At(s, i) == IF i >= 1 /\ i <= Len(s) THEN s[i] ELSE -1

RECURSIVE SkipWs(_, _)
SkipWs(s, i) == IF At(s, i) \in {32, 9, 10, 13} THEN SkipWs(s, i + 1) ELSE i

RECURSIVE DigitRunEnd(_, _)
DigitRunEnd(s, i) == IF IsDigit(At(s, i)) THEN DigitRunEnd(s, i + 1) ELSE i

RECURSIVE ParseDigits(_, _, _, _)
ParseDigits(s, i, end, acc) ==
    IF i >= end THEN acc ELSE ParseDigits(s, i + 1, end, acc * 10 + (s[i] - 48))

HexVal(c) ==
    IF IsDigit(c) THEN c - 48
    ELSE IF c >= 97 /\ c <= 102 THEN c - 87
    ELSE IF c >= 65 /\ c <= 70 THEN c - 55
    ELSE -1

\* The character a simple backslash escape stands for, -1 if it is none.
Unescape(e) ==
    IF e \in {34, 92, 47} THEN e
    ELSE IF e = 98 THEN 8
    ELSE IF e = 102 THEN 12
    ELSE IF e = 110 THEN 10
    ELSE IF e = 114 THEN 13
    ELSE IF e = 116 THEN 9
    ELSE -1

\* The end of the run that starts at s[i] and stops at the next quote,
\* backslash or control character, or past the end.
IsStringStop(c) == c = 34 \/ c = 92 \/ c < 32

StringRunEnd(s, i) ==
    IF i > Len(s) THEN i
    ELSE CHOOSE j \in i..(Len(s) + 1) :
            /\ IsStringStop(At(s, j))
            /\ \A k \in i..(j - 1) : ~IsStringStop(s[k])

\* py_scanstring, strict: i is the position after the opening quote.  One
\* call reads the run of characters at i and the escape after it, at j.
RECURSIVE scanstring(_, _, _)
ScanEscape(s, j, text, e) ==
    LET h == [k \in 1..4 |-> HexVal(At(s, j + 1 + k))] IN
    IF e = 117 THEN
        IF \E k \in 1..4 : h[k] = -1 THEN ScanFail(j)
        ELSE scanstring(s, j + 6,
                        Append(text, h[1] * 4096 + h[2] * 256 + h[3] * 16 + h[4]))
    ELSE IF Unescape(e) = -1 THEN ScanFail(j)
    ELSE scanstring(s, j + 2, Append(text, Unescape(e)))

ScanStringRun(s, j, text) ==
    IF At(s, j) = 34 THEN ScanOk(PyStr(text), j + 1)
    ELSE IF At(s, j) = 92 THEN ScanEscape(s, j, text, At(s, j + 1))
    ELSE ScanFail(j)

scanstring(s, i, acc) ==
    ScanStringRun(s, StringRunEnd(s, i), acc \o SubSeq(s, i, StringRunEnd(s, i) - 1))

\* NUMBER_RE: (-?(?:0|[1-9]\d*))(\.\d+)?([eE][-+]?\d+)?
\* d is the position after the sign, intEnd, fracEnd and expEnd the positions
\* after the integer, the fraction and the exponent.
ScanNumber(s, i) ==
    LET d == IF At(s, i) = 45 THEN i + 1 ELSE i
        intEnd == IF At(s, d) = 48 THEN d + 1 ELSE DigitRunEnd(s, d)
        fracEnd == IF At(s, intEnd) = 46 /\ IsDigit(At(s, intEnd + 1))
                   THEN DigitRunEnd(s, intEnd + 1) ELSE intEnd
        e == IF At(s, fracEnd + 1) \in {43, 45} THEN fracEnd + 2 ELSE fracEnd + 1
        expEnd == IF At(s, fracEnd) \in {101, 69} /\ IsDigit(At(s, e))
                  THEN DigitRunEnd(s, e) ELSE fracEnd
    IN
    IF intEnd = d THEN ScanFail(i)
    ELSE IF expEnd = intEnd THEN
        ScanOk(PyInt(IF d = i THEN ParseDigits(s, d, intEnd, 0)
                     ELSE -ParseDigits(s, d, intEnd, 0)), intEnd)
    ELSE ScanOk(PyFloat(SubSeq(s, i, expEnd - 1)), expEnd)

IsAt(s, i, word) ==
    /\ i >= 1
    /\ i + Len(word) - 1 <= Len(s)
    /\ SubSeq(s, i, i + Len(word) - 1) = word

RECURSIVE scan_once(_, _)
RECURSIVE JSONObject(_, _, _)
RECURSIVE JSONArray(_, _, _)

\* JSONObject's loop: i is at the opening quote of the next key, pairs the
\* members read so far (a later duplicate key replaces the earlier one).  The
\* steps of one turn: the key, the colon, the value, the delimiter.
ObjectDelimiter(s, next, pairs) ==
    IF At(s, next) = 125 THEN ScanOk(PyDict(pairs), next + 1)
    ELSE IF At(s, next) # 44 THEN ScanFail(next)
    ELSE JSONObject(s, SkipWs(s, next + 1), pairs)

ObjectValue(s, key, value, pairs) ==
    IF ~value.ok THEN value
    ELSE ObjectDelimiter(s, SkipWs(s, value.i),
                         [k \in (DOMAIN pairs) \cup {key} |->
                             IF k = key THEN value.v ELSE pairs[k]])

ObjectColon(s, key, colon, pairs) ==
    IF At(s, colon) # 58 THEN ScanFail(colon)
    ELSE ObjectValue(s, key, scan_once(s, SkipWs(s, colon + 1)), pairs)

ObjectKey(s, key, pairs) ==
    IF ~key.ok THEN key ELSE ObjectColon(s, key.v.v, SkipWs(s, key.i), pairs)

JSONObject(s, i, pairs) ==
    IF At(s, i) # 34 THEN ScanFail(i)
    ELSE ObjectKey(s, scanstring(s, i + 1, <<>>), pairs)

\* JSONArray's loop: i is at the next value, items the values read so far.
ArrayDelimiter(s, next, items) ==
    IF At(s, next) = 93 THEN ScanOk(PyList(items), next + 1)
    ELSE IF At(s, next) # 44 THEN ScanFail(next)
    ELSE JSONArray(s, SkipWs(s, next + 1), items)

ArrayValue(s, value, items) ==
    IF ~value.ok THEN value
    ELSE ArrayDelimiter(s, SkipWs(s, value.i), Append(items, value.v))

JSONArray(s, i, items) == ArrayValue(s, scan_once(s, i), items)

\* The branches of scan_once after the number: NaN, Infinity, -Infinity.
NumberOrConstant(s, i, number) ==
    IF number.ok THEN number
    ELSE IF IsAt(s, i, S(<<"N", "a", "N">>)) THEN ScanOk(PyFloat(SubSeq(s, i, i + 2)), i + 3)
    ELSE IF IsAt(s, i, S(<<"I", "n", "f", "i", "n", "i", "t", "y">>))
        THEN ScanOk(PyFloat(SubSeq(s, i, i + 7)), i + 8)
    ELSE IF IsAt(s, i, S(<<"-", "I", "n", "f", "i", "n", "i", "t", "y">>))
        THEN ScanOk(PyFloat(SubSeq(s, i, i + 8)), i + 9)
    ELSE ScanFail(i)

scan_once(s, i) ==
    IF At(s, i) = 34 THEN scanstring(s, i + 1, <<>>)
    ELSE IF At(s, i) = 123 THEN
        IF At(s, SkipWs(s, i + 1)) = 125 THEN ScanOk(EmptyDict, SkipWs(s, i + 1) + 1)
        ELSE JSONObject(s, SkipWs(s, i + 1), <<>>)
    ELSE IF At(s, i) = 91 THEN
        IF At(s, SkipWs(s, i + 1)) = 93 THEN ScanOk(PyList(<<>>), SkipWs(s, i + 1) + 1)
        ELSE JSONArray(s, SkipWs(s, i + 1), <<>>)
    ELSE IF IsAt(s, i, S(<<"n", "u", "l", "l">>)) THEN ScanOk(None, i + 4)
    ELSE IF IsAt(s, i, S(<<"t", "r", "u", "e">>)) THEN ScanOk(PyBool(TRUE), i + 4)
    ELSE IF IsAt(s, i, S(<<"f", "a", "l", "s", "e">>)) THEN ScanOk(PyBool(FALSE), i + 5)
    ELSE NumberOrConstant(s, i, ScanNumber(s, i))

\* JSONDecoder.decode: the value, then nothing but whitespace.
decode(s, r) ==
    \* 'Expecting value'
    IF ~r.ok THEN Raise("JSONDecodeError",
        S(<<"E", "x", "p", "e", "c", "t", "i", "n", "g", " ", "v", "a", "l",
            "u", "e">>))
    \* 'Extra data'
    ELSE IF SkipWs(s, r.i) # Len(s) + 1 THEN Raise("JSONDecodeError",
        S(<<"E", "x", "t", "r", "a", " ", "d", "a", "t", "a">>))
    ELSE Return(r.v)

json_loads(s) == decode(s, scan_once(s, SkipWs(s, 1)))

(***************************************************************************)
(* The fake Hawk header                                                    *)
(***************************************************************************)
HawkPrefix == S(<<"H", "a", "w", "k", " ">>)
KeyId == S(<<"i", "d">>)
KeyTs == S(<<"t", "s">>)
KeyNonce == S(<<"n", "o", "n", "c", "e">>)
KeyExt == S(<<"e", "x", "t">>)
KeyMac == S(<<"m", "a", "c">>)
KeyScopes == S(<<"s", "c", "o", "p", "e", "s">>)
KeyAuthorization ==
    S(<<"a", "u", "t", "h", "o", "r", "i", "z", "a", "t", "i", "o", "n">>)

\* hashlib.sha1(data).hexdigest(): 40 lowercase hexadecimal digits that depend
\* on the data.  SHA-1 itself is replaced by a 16-bit weighted checksum,
\* stretched to 40 digits; nothing in this file reads the digest back.
RECURSIVE Checksum(_, _, _)
Checksum(data, lo, hi) ==
    IF lo > hi THEN 0
    ELSE IF lo = hi THEN (data[lo] * (1 + (lo % 251))) % 65536
    ELSE LET mid == (lo + hi) \div 2
         IN (Checksum(data, lo, mid) + Checksum(data, mid + 1, hi)) % 65536

RECURSIVE HexWords(_, _)
HexWords(h, n) ==
    IF n = 0 THEN <<>>
    ELSE <<HexDigit(h \div 4096), HexDigit((h \div 256) % 16),
           HexDigit((h \div 16) % 16), HexDigit(h % 16)>>
         \o HexWords((h * 31 + 7) % 65536, n - 1)

sha1_hexdigest(data) == HexWords((40503 + Checksum(data, 1, Len(data))) % 65536, 10)

\* '{}="{}"'.format(key, value)
FormatPart(key, value) == key \o <<61, 34>> \o value \o <<34>>

\* build_header as it would be if mac were added before ext.
build_header_mac_before_ext(client_id, ext_data, ts, nonce) ==
    LET ext == IF ext_data # None
               THEN <<b64encode(utf8_encode(json_dumps(ext_data)))>>
               ELSE <<>>
        keys == <<KeyId, KeyTs, KeyNonce>>
                \o (IF ext_data # None THEN <<KeyExt>> ELSE <<>>)
        values == <<client_id, StrInt(ts), StrInt(nonce)>> \o ext
        mac_contents == Join(<<10>>, values)
        mac == sha1_hexdigest(utf8_encode(mac_contents))
        out_keys == <<KeyId, KeyTs, KeyNonce, KeyMac>>
                    \o (IF ext_data # None THEN <<KeyExt>> ELSE <<>>)
        out_values == <<client_id, StrInt(ts), StrInt(nonce), mac>> \o ext
        parts == [i \in 1..Len(out_keys) |-> FormatPart(out_keys[i], out_values[i])]
    IN HawkPrefix \o Join(<<44, 32>>, parts)

\* build_header(client_id, ext_data), with the clock and the random nonce it
\* reads as `ts` and `nonce`.  client_id is text; ext_data is None or a value.
build_header(client_id, ext_data, ts, nonce) ==
    LET ext == IF ext_data # None
               THEN <<b64encode(utf8_encode(json_dumps(ext_data)))>>
               ELSE <<>>
        keys == <<KeyId, KeyTs, KeyNonce>>
                \o (IF ext_data # None THEN <<KeyExt>> ELSE <<>>)
        values == <<client_id, StrInt(ts), StrInt(nonce)>> \o ext
        mac_contents == Join(<<10>>, values)
        mac == sha1_hexdigest(utf8_encode(mac_contents))
        out_keys == Append(keys, KeyMac)
        out_values == Append(values, mac)
        parts == [i \in 1..Len(out_keys) |-> FormatPart(out_keys[i], out_values[i])]
    IN HawkPrefix \o Join(<<44, 32>>, parts)

\* \w, for the ASCII range
IsWordChar(c) == IsDigit(c) \/ IsAsciiAlpha(c) \/ c = 95

\* [\w=\.\@\-_/]
IsValueChar(c) == IsWordChar(c) \/ c \in {61, 46, 64, 45, 95, 47}

\* The end of the run of \w characters that starts at s[i].
WordRunEnd(s, i) ==
    IF i > Len(s) THEN i
    ELSE CHOOSE j \in i..(Len(s) + 1) :
            /\ ~IsWordChar(At(s, j))
            /\ \A k \in i..(j - 1) : IsWordChar(s[k])

\* The end of the run of [\w=\.\@\-_/] characters that starts at s[i].
ValueRunEnd(s, i) ==
    IF i > Len(s) THEN i
    ELSE CHOOSE j \in i..(Len(s) + 1) :
            /\ ~IsValueChar(At(s, j))
            /\ \A k \in i..(j - 1) : IsValueChar(s[k])

\* A match of (\w+)="([\w=\.\@\-_/]+)" starting at i.  Both repetitions are
\* greedy and the character that must follow each is outside its class, so a
\* match takes the maximal runs.
MatchAt(s, i) ==
    LET k == WordRunEnd(s, i)
        v == ValueRunEnd(s, k + 2)
    IN
    IF k > i /\ At(s, k) = 61 /\ At(s, k + 1) = 34 /\ v > k + 2 /\ At(s, v) = 34
    THEN [ok |-> TRUE, key |-> SubSeq(s, i, k - 1), value |-> SubSeq(s, k + 2, v - 1),
          end |-> v + 1]
    ELSE [ok |-> FALSE, key |-> <<>>, value |-> <<>>, end |-> i]

\* re.findall(r'(\w+)="([\w=\.\@\-_/]+)"', s): the non-overlapping matches,
\* scanning from the left.
RECURSIVE findall(_, _)
MatchFound(s, m) == <<<<m.key, m.value>>>> \o findall(s, m.end)

FirstMatch(s, starts) ==
    IF starts = {} THEN <<>>
    ELSE MatchFound(s, MatchAt(s, CHOOSE j \in starts : \A k \in starts : j <= k))

findall(s, i) == FirstMatch(s, {j \in i..Len(s) : MatchAt(s, j).ok})

\* dict(parts): the last pair of a key wins.
dict(parts) ==
    [k \in {parts[i][1] : i \in 1..Len(parts)} |->
        parts[CHOOSE i \in 1..Len(parts) :
                /\ parts[i][1] = k
                /\ \A j \in (i + 1)..Len(parts) : parts[j][1] # k][2]]

\* The try block of parse_header: any exception gives {}.
\* Loaded as it would be if the except block gave None.
LoadedOrNone(loaded) == IF loaded.raised THEN None ELSE loaded.value

\* A step of the expression whose operand raised leaves through the except.
Loaded(loaded) == IF loaded.raised THEN EmptyDict ELSE loaded.value

LoadText(text) == IF text.raised THEN EmptyDict ELSE Loaded(json_loads(text.value))

LoadBytes(bytes) ==
    IF bytes.raised THEN EmptyDict ELSE LoadText(utf8_decode(bytes.value, 1, <<>>))

LoadExt(parts) ==
    IF KeyExt \notin DOMAIN parts THEN EmptyDict
    ELSE LoadBytes(b64decode(parts[KeyExt]))

\* The required keys as they would be if nonce were not checked.
RequiredPartsWithoutNonce == <<KeyId, KeyMac, KeyTs>>

\* for k in ('id', 'mac', 'ts', 'nonce')
RequiredParts == <<KeyId, KeyMac, KeyTs, KeyNonce>>

\* type(v).__name__
TypeName(v) ==
    IF v.t = "None" THEN S(<<"N", "o", "n", "e", "T", "y", "p", "e">>)
    ELSE IF v.t = "bool" THEN S(<<"b", "o", "o", "l">>)
    ELSE IF v.t = "int" THEN S(<<"i", "n", "t">>)
    ELSE IF v.t = "float" THEN S(<<"f", "l", "o", "a", "t">>)
    ELSE IF v.t = "str" THEN S(<<"s", "t", "r">>)
    ELSE IF v.t = "list" THEN S(<<"l", "i", "s", "t">>)
    ELSE S(<<"d", "i", "c", "t">>)

\* "'<type>' object has no attribute '<name>'"
NoAttribute(v, name) ==
    Raise("AttributeError",
          <<39>> \o TypeName(v)
          \o S(<<"'", " ", "o", "b", "j", "e", "c", "t", " ", "h", "a", "s", " ", "n",
                 "o", " ", "a", "t", "t", "r", "i", "b", "u", "t", "e", " ", "'">>)
          \o name \o <<39>>)

\* parse_header(header): returns (client id, ext data) or raises.  header is
\* the value the caller passes, a str in every intended use.
\* CheckParts as it would be if the digest were verified: a mac that is not
\* the digest of the other fields is refused.
CheckPartsVerifyingMac(parts, missing) ==
    IF missing # {}
    THEN Raise("Exception",
               MsgMissingHeaderPart
               \o RequiredParts[CHOOSE i \in missing : \A j \in missing : i <= j])
    ELSE IF parts[KeyMac] # sha1_hexdigest(utf8_encode(Join(<<10>>,
                <<parts[KeyId], parts[KeyTs], parts[KeyNonce]>>
                \o (IF KeyExt \in DOMAIN parts THEN <<parts[KeyExt]>> ELSE <<>>))))
    THEN Raise("Exception", S(<<"B", "a", "d", " ", "m", "a", "c">>))
    ELSE Return([client_id |-> parts[KeyId], ext_data |-> LoadExt(parts)])

\* The loop over ('id', 'mac', 'ts', 'nonce') raises at the first key that is
\* not in parts; `missing` holds the positions of the keys not in parts.
CheckParts(parts, missing) ==
    IF missing # {}
    THEN Raise("Exception",
               MsgMissingHeaderPart
               \o RequiredParts[CHOOSE i \in missing : \A j \in missing : i <= j])
    ELSE Return([client_id |-> parts[KeyId], ext_data |-> LoadExt(parts)])

ParseParts(parts) ==
    CheckParts(parts, {i \in 1..Len(RequiredParts) : RequiredParts[i] \notin DOMAIN parts})

parse_header(header) ==
    \* 'startswith'
    IF header.t # "str" THEN NoAttribute(header,
        S(<<"s", "t", "a", "r", "t", "s", "w", "i", "t", "h">>))
    ELSE IF ~StartsWith(header.v, HawkPrefix)
    THEN Raise("Exception", MsgMissingHawkPrefix)
    ELSE ParseParts(dict(findall(header.v, 1)))

(***************************************************************************)
(* datetime: now + timedelta(days=1), strftime('%Y-%m-%dT%H:%M:%S')        *)
(***************************************************************************)
DaysInMonth(y, m) ==
    IF m = 2 THEN (IF (y % 4 = 0 /\ y % 100 # 0) \/ y % 400 = 0 THEN 29 ELSE 28)
    ELSE IF m \in {4, 6, 9, 11} THEN 30
    ELSE 31

\* dt + datetime.timedelta(days=1)
AddOneDay(dt) ==
    IF dt.day < DaysInMonth(dt.year, dt.month) THEN [dt EXCEPT !.day = @ + 1]
    ELSE IF dt.month < 12 THEN [dt EXCEPT !.day = 1, !.month = @ + 1]
    ELSE [dt EXCEPT !.day = 1, !.month = 1, !.year = @ + 1]

\* n in decimal, zero-padded to `width` digits
RECURSIVE Pad(_, _)
Pad(n, width) ==
    IF width = 0 THEN <<>> ELSE Pad(n \div 10, width - 1) \o <<48 + (n % 10)>>

strftime(dt) ==
    Pad(dt.year, 4) \o <<45>> \o Pad(dt.month, 2) \o <<45>> \o Pad(dt.day, 2)
    \o <<84>> \o Pad(dt.hour, 2) \o <<58>> \o Pad(dt.minute, 2)
    \o <<58>> \o Pad(dt.second, 2)

(***************************************************************************)
(* mock_auth_taskcluster                                                   *)
(***************************************************************************)
\* 'Missing authorization'
MsgMissingAuthorization ==
    S(<<"M", "i", "s", "s", "i", "n", "g", " ", "a", "u", "t", "h", "o", "r",
        "i", "z", "a", "t", "i", "o", "n">>)

\* 'status'
KeyStatus ==
    S(<<"s", "t", "a", "t", "u", "s">>)

\* 'scheme'
KeyScheme ==
    S(<<"s", "c", "h", "e", "m", "e">>)

\* 'clientId'
KeyClientId ==
    S(<<"c", "l", "i", "e", "n", "t", "I", "d">>)

\* 'expires'
KeyExpires ==
    S(<<"e", "x", "p", "i", "r", "e", "s">>)

\* 'message'
KeyMessage ==
    S(<<"m", "e", "s", "s", "a", "g", "e">>)

\* 'auth-success'
AuthSuccess ==
    S(<<"a", "u", "t", "h", "-", "s", "u", "c", "c", "e", "s", "s">>)

\* 'auth-failure'
AuthFailure ==
    S(<<"a", "u", "t", "h", "-", "f", "a", "i", "l", "u", "r", "e">>)

\* 'hawk'
SchemeHawk ==
    S(<<"h", "a", "w", "k">>)

\* 'Content-Type'
ContentType ==
    S(<<"C", "o", "n", "t", "e", "n", "t", "-", "T", "y", "p", "e">>)

\* 'application/json'
ApplicationJson ==
    S(<<"a", "p", "p", "l", "i", "c", "a", "t", "i", "o", "n", "/", "j", "s",
        "o", "n">>)

\* 'text/plain'
TextPlain ==
    S(<<"t", "e", "x", "t", "/", "p", "l", "a", "i", "n">>)

\* Lines 124-126: the `in` test and the subscript on the loaded payload,
\* whatever type of value the body holds.
Authorization(payload) ==
    IF payload.t = "dict" THEN
        IF KeyAuthorization \notin DOMAIN payload.v
        THEN Raise("Exception", MsgMissingAuthorization)
        ELSE Return(payload.v[KeyAuthorization])
    ELSE IF payload.t = "list" THEN
        IF \A i \in 1..Len(payload.v) :
                ~(payload.v[i].t = "str" /\ payload.v[i].v = KeyAuthorization)
        THEN Raise("Exception", MsgMissingAuthorization)
        \* 'list indices must be integers or slices, not str'
        ELSE Raise("TypeError",
            S(<<"l", "i", "s", "t", " ", "i", "n", "d", "i", "c", "e", "s",
                " ", "m", "u", "s", "t", " ", "b", "e", " ", "i", "n", "t",
                "e", "g", "e", "r", "s", " ", "o", "r", " ", "s", "l", "i",
                "c", "e", "s", ",", " ", "n", "o", "t", " ", "s", "t", "r">>))
    ELSE IF payload.t = "str" THEN
        IF ~\E i \in 1..(Len(payload.v) + 1) : IsAt(payload.v, i, KeyAuthorization)
        THEN Raise("Exception", MsgMissingAuthorization)
        \* "string indices must be integers, not 'str'"
        ELSE Raise("TypeError",
            S(<<"s", "t", "r", "i", "n", "g", " ", "i", "n", "d", "i", "c",
                "e", "s", " ", "m", "u", "s", "t", " ", "b", "e", " ", "i",
                "n", "t", "e", "g", "e", "r", "s", ",", " ", "n", "o", "t",
                " ", "'", "s", "t", "r", "'">>))
    ELSE Raise("TypeError",
               S(<<"a", "r", "g", "u", "m", "e", "n", "t", " ", "o", "f", " ", "t", "y",
                   "p", "e", " ", "'">>)
               \o TypeName(payload)
               \o S(<<"'", " ", "i", "s", " ", "n", "o", "t", " ", "i", "t", "e", "r",
                      "a", "b", "l", "e">>))

\* ext_data.get('scopes', [])
GetScopes(ext_data) ==
    IF ext_data.t # "dict" THEN NoAttribute(ext_data, S(<<"g", "e", "t">>))
    ELSE IF KeyScopes \in DOMAIN ext_data.v THEN Return(ext_data.v[KeyScopes])
    ELSE Return(PyList(<<>>))

\* The try block, statement by statement: the success body, or the exception
\* raised on the way.
BodyOfScopes(client_id, scopes, now) ==
    IF scopes.raised THEN scopes
    ELSE Return(PyDict(
            (KeyStatus :> PyStr(AuthSuccess))
            @@ (KeyScopes :> scopes.value)
            @@ (KeyScheme :> PyStr(SchemeHawk))
            @@ (KeyClientId :> PyStr(client_id))
            @@ (KeyExpires :> PyStr(strftime(AddOneDay(now))))))

BodyOfParsed(parsed, now) ==
    IF parsed.raised THEN parsed
    ELSE BodyOfScopes(parsed.value.client_id, GetScopes(parsed.value.ext_data), now)

BodyOfAuthorization(authorization, now) ==
    IF authorization.raised THEN authorization
    ELSE BodyOfParsed(parse_header(authorization.value), now)

success_body(payload, now) == BodyOfAuthorization(Authorization(payload), now)

\* The except block: str(e) becomes the message.
failure_body(e) ==
    PyDict((KeyStatus :> PyStr(AuthFailure)) @@ (KeyMessage :> PyStr(e.message)))

\* The output of the response, lines 147-151, for what the try block gave.
\* A mapping of the model has no key order: json_dumps writes the keys of the
\* body sorted, where the code writes them in insertion order.
AuthResponse(try) ==
    Return([http_code |-> IF try.raised THEN 401 ELSE 200,
            headers |-> (ContentType :> ApplicationJson),
            body |-> json_dumps(IF try.raised THEN failure_body(try) ELSE try.value)])

\* mock_auth_taskcluster(request), with the clock it reads as `now`: returns
\* (http_code, headers, body text), or raises what json.loads raises on the
\* request body, which is loaded before the try block.
mock_auth_taskcluster(body, now) ==
    LET payload == json_loads(body) IN
    IF payload.raised THEN payload ELSE AuthResponse(success_body(payload.value, now))

(***************************************************************************)
(* mock_auth_auth0                                                         *)
(***************************************************************************)
AUTH0_DUMMY_USERINFO ==
    PyDict(
        (S(<<"f", "a", "m", "i", "l", "y", "_", "n", "a", "m", "e">>)
               :> PyStr(S(<<"M", "o", "r", "a", "n">>)))
        @@ (S(<<"g", "i", "v", "e", "n", "_", "n", "a", "m", "e">>)
               :> PyStr(S(<<"L", "y", "d", "i", "a">>)))
        @@ (S(<<"n", "i", "c", "k", "n", "a", "m", "e">>)
               :> PyStr(S(<<"L", "y", "d", "i", "a", " ", "M", "o", "r", "a", "n">>)))
        @@ (S(<<"g", "r", "o", "u", "p", "s">>)
               :> PyList(<<
                  PyStr(S(<<"a", "v", "e", "n", "g", "e", "r", "s">>)),
                  PyStr(S(<<"J", "u", "s", "t", "i", "c", "e", "L", "e", "a", "g",
                        "u", "e">>)),
                  PyStr(S(<<"x", "_", "m", "e", "n">>)),
                  PyStr(S(<<"t", "h", "e", "_", "s", "p", "e", "c", "i", "a", "l",
                        "s">>)),
                  PyStr(S(<<"f", "a", "n", "t", "a", "s", "t", "i", "c", "4">>))>>))
        @@ (S(<<"e", "m", "a", "i", "l", "s">>)
               :> PyList(<<
                  PyStr(S(<<"l", "m", "o", "r", "a", "n", "@", "m", "o", "z", "i",
                        "l", "l", "a", ".", "c", "o", "m">>))>>))
        @@ (S(<<"d", "n">>)
               :> PyStr(S(<<"m", "a", "i", "l", "=", "l", "m", "o", "r", "a", "n", "@",
                    "m", "o", "z", "i", "l", "l", "a", ".", "c", "o", "m", ",",
                    "o", "=", "c", "o", "m", ",", "d", "c", "=", "m", "o", "z",
                    "i", "l", "l", "a">>)))
        @@ (S(<<"o", "r", "g", "a", "n", "i", "z", "a", "t", "i", "o", "n", "U", "n",
         "i", "t", "s">>)
               :> PyStr(S(<<"m", "a", "i", "l", "=", "l", "m", "o", "r", "a", "n", "@",
                    "m", "o", "z", "i", "l", "l", "a", ".", "c", "o", "m", ",",
                    "o", "=", "c", "o", "m", ",", "d", "c", "=", "m", "o", "z",
                    "i", "l", "l", "a">>)))
        @@ (S(<<"e", "m", "a", "i", "l">>)
               :> PyStr(S(<<"l", "m", "o", "r", "a", "n", "@", "m", "o", "z", "i", "l",
                    "l", "a", ".", "c", "o", "m">>)))
        @@ (S(<<"n", "a", "m", "e">>)
               :> PyStr(S(<<"L", "y", "d", "i", "a", " ", "M", "o", "r", "a", "n">>)))
        @@ (S(<<"p", "i", "c", "t", "u", "r", "e">>)
               :> PyStr(S(<<"h", "t", "t", "p", ":", "/", "/", "p", "e", "o", "p", "l",
                    "e", ".", "m", "o", "z", "i", "l", "l", "a", ".", "c", "o",
                    "m", "/", "~", "f", "a", "a", "b", "o", "r", "g", "/", "f",
                    "i", "l", "e", "s", "/", "s", "h", "i", "r", "e", "t", "o",
                    "k", "o", "/", "f", "i", "r", "e", "f", "o", "x", "I", "c",
                    "o", "n", "/", "f", "i", "r", "e", "f", "o", "x", "-", "1",
                    "2", "8", ".", "p", "n", "g">>)))
        @@ (S(<<"e", "m", "a", "i", "l", "_", "v", "e", "r", "i", "f", "i", "e", "d">>)
               :> PyBool(TRUE))
        @@ (S(<<"c", "l", "i", "e", "n", "t", "I", "D">>)
               :> PyStr(S(<<"a", "b", "c", "d", "e", "f", "g", "h", "i", "j", "k", "l",
                    "m", "n", "o", "p", "q", "r", "s", "t", "u", "v", "w", "x",
                    "y", "z", "1", "2", "3", "4", "5", "6">>)))
        @@ (S(<<"u", "p", "d", "a", "t", "e", "d", "_", "a", "t">>)
               :> PyStr(S(<<"2", "0", "1", "7", "-", "0", "4", "-", "2", "5", "T", "0",
                    "9", ":", "3", "6", ":", "5", "7", ".", "9", "5", "0", "Z">>)))
        @@ (S(<<"u", "s", "e", "r", "_", "i", "d">>)
               :> PyStr(S(<<"a", "d", "|", "M", "o", "z", "i", "l", "l", "a", "-", "L",
                    "D", "A", "P", "|", "l", "m", "o", "r", "a", "n">>)))
        @@ (S(<<"i", "d", "e", "n", "t", "i", "t", "i", "e", "s">>)
               :> PyList(<<
                  PyDict(
                      (S(<<"u", "s", "e", "r", "_", "i", "d">>)
                             :> PyStr(S(<<"M", "o", "z", "i", "l", "l", "a", "-", "L",
                                  "D", "A", "P", "|", "l", "m", "o", "r", "a",
                                  "n">>)))
                      @@ (S(<<"p", "r", "o", "v", "i", "d", "e", "r">>)
                             :> PyStr(S(<<"a", "d">>)))
                      @@ (S(<<"c", "o", "n", "n", "e", "c", "t", "i", "o", "n">>)
                             :> PyStr(S(<<"M", "o", "z", "i", "l", "l", "a", "-", "L",
                                  "D", "A", "P">>)))
                      @@ (S(<<"i", "s", "S", "o", "c", "i", "a", "l">>)
                             :> PyBool(FALSE)))>>))
        @@ (S(<<"c", "r", "e", "a", "t", "e", "d", "_", "a", "t">>)
               :> PyStr(S(<<"2", "0", "1", "7", "-", "0", "3", "-", "0", "7", "T", "1",
                    "0", ":", "1", "4", ":", "5", "1", ".", "0", "7", "7", "Z">>)))
        @@ (S(<<"m", "u", "l", "t", "i", "f", "a", "c", "t", "o", "r">>)
               :> PyList(<<
                  PyStr(S(<<"d", "u", "o">>))>>))
        @@ (S(<<"s", "u", "b">>)
               :> PyStr(S(<<"a", "d", "|", "M", "o", "z", "i", "l", "l", "a", "-", "L",
                    "D", "A", "P", "|", "l", "m", "o", "r", "a", "n">>))))

\* 'Unauthorized'
Unauthorized ==
    S(<<"U", "n", "a", "u", "t", "h", "o", "r", "i", "z", "e", "d">>)

\* 'access_token'
AccessToken ==
    S(<<"a", "c", "c", "e", "s", "s", "_", "t", "o", "k", "e", "n">>)

\* 'badtoken'
BadToken ==
    S(<<"b", "a", "d", "t", "o", "k", "e", "n">>)

\* The position of the first c in s, 0 if there is none.
Find(s, c) ==
    IF \E i \in 1..Len(s) : s[i] = c
    THEN CHOOSE i \in 1..Len(s) : s[i] = c /\ \A j \in 1..(i - 1) : s[j] # c
    ELSE 0

\* s.split(sep) for a one-character separator
RECURSIVE Split(_, _)
Split(s, sep) ==
    LET i == Find(s, sep) IN
    IF i = 0 THEN <<s>>
    ELSE <<SubSeq(s, 1, i - 1)>> \o Split(SubSeq(s, i + 1, Len(s)), sep)

\* urllib.parse.urlparse(url).query: the fragment is cut at the first '#',
\* then the query is what follows the first '?'.
UrlQuery(url) ==
    LET hash == Find(url, 35)
        rest == IF hash = 0 THEN url ELSE SubSeq(url, 1, hash - 1)
        mark == Find(rest, 63)
    IN IF mark = 0 THEN <<>> ELSE SubSeq(rest, mark + 1, Len(rest))

\* The dict comprehension of lines 163-164, for the pieces of each parameter:
\* IndexError for a parameter without '=', the last value of a repeated name
\* otherwise.
QueryDict(pieces) ==
    IF \E i \in 1..Len(pieces) : Len(pieces[i]) < 2
    THEN Raise("IndexError", S(<<"l", "i", "s", "t", " ", "i", "n", "d", "e", "x", " ",
                                 "o", "u", "t", " ", "o", "f", " ", "r", "a", "n", "g", "e">>))
    ELSE Return(dict([i \in 1..Len(pieces) |-> <<pieces[i][1], pieces[i][2]>>]))

ParseQuery(query) ==
    QueryDict([i \in 1..Len(Split(query, 38)) |-> Split(Split(query, 38)[i], 61)])

\* The response for the value of query.get('access_token', 'badtoken').
UserinfoResponse(token) ==
    IF token = BadToken
    THEN Return([http_code |-> 200,
                 headers |-> (ContentType :> TextPlain),
                 body |-> Unauthorized])
    ELSE Return([http_code |-> 200,
                 headers |-> (ContentType :> ApplicationJson),
                 body |-> json_dumps(AUTH0_DUMMY_USERINFO)])

\* mock_auth_auth0(request): (http_code, headers, body), or raises.
mock_auth_auth0(url) ==
    LET query == ParseQuery(UrlQuery(url)) IN
    IF query.raised THEN query
    ELSE UserinfoResponse(IF AccessToken \in DOMAIN query.value
                          THEN query.value[AccessToken] ELSE BadToken)

(***************************************************************************)
(* The fixture: configure_app and client                                   *)
(***************************************************************************)
\* 'https://auth.taskcluster.net/v1/authenticate-hawk'
AuthenticateUrl ==
    S(<<"h", "t", "t", "p", "s", ":", "/", "/", "a", "u", "t", "h", ".", "t",
        "a", "s", "k", "c", "l", "u", "s", "t", "e", "r", ".", "n", "e", "t",
        "/", "v", "1", "/", "a", "u", "t", "h", "e", "n", "t", "i", "c", "a",
        "t", "e", "-", "h", "a", "w", "k">>)

\* 'https://auth.mozilla.auth0.com/userinfo'
UserinfoUrl ==
    S(<<"h", "t", "t", "p", "s", ":", "/", "/", "a", "u", "t", "h", ".", "m",
        "o", "z", "i", "l", "l", "a", ".", "a", "u", "t", "h", "0", ".", "c",
        "o", "m", "/", "u", "s", "e", "r", "i", "n", "f", "o">>)

\* The two registrations client() makes with requests_mock.add_callback.
TaskclusterBinding ==
    [method |-> "POST", url |-> AuthenticateUrl, regex |-> FALSE,
     callback |-> "mock_auth_taskcluster"]

Auth0Binding ==
    [method |-> "GET", url |-> UserinfoUrl, regex |-> TRUE,
     callback |-> "mock_auth_auth0"]

\* configure_app as it would be without the hasattr test.
configure_app_unconditional(a, calls) == calls \o <<"drop_all", "create_all">>

\* configure_app(app): the calls app.db receives, after those in `calls`.
configure_app(a, calls) ==
    IF a.db THEN calls \o <<"drop_all", "create_all">> ELSE calls

\* client(app) up to its yield: the registrations of requests_mock, after
\* those in `registered`.
client_setup(a, registered) ==
    registered
    \o (IF a.auth THEN <<TaskclusterBinding>> ELSE <<>>)
    \o (IF a.auth0 THEN <<Auth0Binding>> ELSE <<>>)

\* client_teardown as it would be if leaving the block did not reset the mock.
client_teardown_keeping(registered) == registered

\* Leaving `with requests_mock:` stops the mock and resets it: what is left of
\* the registrations.
client_teardown(registered) == <<>>

\* Whether a registration answers a call: the method, and the URL without its
\* query string for a plain URL, re.match for the compiled pattern
\* r'https://auth\.mozilla\.auth0\.com/userinfo.*'.
Matches(binding, call) ==
    /\ binding.method = call.method
    /\ IF binding.regex THEN StartsWith(call.url, binding.url)
       ELSE Split(call.url, 63)[1] = binding.url

\* The response a call made by the test body gets from requests_mock.
Dispatch(registered, call) ==
    LET hits == {i \in 1..Len(registered) : Matches(registered[i], call)} IN
    IF hits = {} THEN Raise("ConnectionError", <<>>)
    ELSE
        LET first == registered[CHOOSE i \in hits : \A j \in hits : i <= j] IN
        IF first.callback = "mock_auth_taskcluster"
        THEN mock_auth_taskcluster(call.body, call.now)
        ELSE mock_auth_auth0(call.url)

(***************************************************************************)
(* Inputs                                                                  *)
(***************************************************************************)
NoRequest == [fn |-> "none"]
NoResponse == [raised |-> FALSE, value |-> None]
\* A field an input header does not have.
Absent == <<-1>>

\* Client ids: 'c1', 'releng/user@mozilla.com', 'a b', ''
ClientIds ==
    {S(<<"c", "1">>),
     S(<<"r", "e", "l", "e", "n", "g", "/", "u", "s", "e", "r", "@", "m", "o",
         "z", "i", "l", "l", "a", ".", "c", "o", "m">>),
     S(<<"a", " ", "b">>),
     <<>>}

ScopesOf(names) == PyDict(KeyScopes :> PyList(names))

\* Extension data: None, {}, {'scopes': ['read']}, {'scopes': ['a>b']},
\* {'scopes': [], 'n': 1}
ExtDatas ==
    {None,
     EmptyDict,
     ScopesOf(<<PyStr(S(<<"r", "e", "a", "d">>))>>),
     ScopesOf(<<PyStr(S(<<"a", ">", "b">>))>>),
     PyDict((KeyScopes :> PyList(<<>>)) @@ (S(<<"n">>) :> PyInt(1)))}

\* datetime.datetime.now(): mid-month, the last day of a leap February, the
\* last day of a year.
Nows ==
    {[year |-> 2017, month |-> 4, day |-> 25, hour |-> 9, minute |-> 36, second |-> 57],
     [year |-> 2016, month |-> 2, day |-> 28, hour |-> 23, minute |-> 59, second |-> 59],
     [year |-> 2017, month |-> 12, day |-> 31, hour |-> 0, minute |-> 0, second |-> 0]}

\* Values of the ext field of an input header:
\*   the base64 of {"scopes": ["read"]}, of {}, of [], of {"a": 1};
\*   'e30' (padding missing), 'AAAA' (three NUL bytes, not JSON),
\*   '/w==' (the byte 0xff, not UTF-8),
\*   'eyJh.IjoxfQ==' (the base64 of {"a":1} with a '.' inside),
\*   the base64 of {"scopes": ["a>b"]}, which holds a '+'.
ExtValues ==
    {S(<<"e", "y", "J", "z", "Y", "2", "9", "w", "Z", "X", "M", "i", "O", "i",
         "B", "b", "I", "n", "J", "l", "Y", "W", "Q", "i", "X", "X", "0", "=">>),
     S(<<"e", "3", "0", "=">>),
     S(<<"W", "1", "0", "=">>),
     S(<<"e", "y", "J", "h", "I", "j", "o", "g", "M", "X", "0", "=">>),
     S(<<"e", "3", "0">>),
     S(<<"A", "A", "A", "A">>),
     S(<<"/", "w", "=", "=">>),
     S(<<"e", "y", "J", "h", ".", "I", "j", "o", "x", "f", "Q", "=", "=">>),
     S(<<"e", "y", "J", "z", "Y", "2", "9", "w", "Z", "X", "M", "i", "O", "i",
         "B", "b", "I", "m", "E", "+", "Y", "i", "J", "d", "f", "Q", "=", "=">>)}

ForgedMacs == {S(<<"a", "b", "c">>), S(<<"0", "f", "=">>)}

FieldKeys == <<KeyId, KeyTs, KeyNonce, KeyExt, KeyMac>>

\* The values of the fields a header has, in the order of FieldKeys.
Present(f) == {i \in 1..Len(FieldKeys) : f[i] # Absent}

RECURSIVE Ascending(_)
Ascending(set) ==
    IF set = {} THEN <<>>
    ELSE LET m == CHOOSE i \in set : \A j \in set : i <= j
         IN <<m>> \o Ascending(set \ {m})

\* The digest build_header would give the fields before mac.
DigestOf(f) ==
    LET before == Ascending(Present(f) \ {5}) IN
    sha1_hexdigest(utf8_encode(Join(<<10>>, [k \in 1..Len(before) |-> f[before[k]]])))

\* The header text of an input credential: its prefix, then its fields.
HeaderText(prefix, f) ==
    LET has == Ascending(Present(f)) IN
    prefix \o Join(<<44, 32>>,
                   [k \in 1..Len(has) |-> FormatPart(FieldKeys[has[k]], f[has[k]])])

\* The input credentials: every field present or not (the id 'c1' or 'a b',
\* the ts '1', the nonce '42'), the mac forged or the digest build_header
\* would compute.
Credentials ==
    UNION {{<<id, ts, nonce, ext, mac>> :
                mac \in {Absent} \cup ForgedMacs
                        \cup {DigestOf(<<id, ts, nonce, ext, Absent>>)}} :
           id \in {Absent, S(<<"c", "1">>), S(<<"a", " ", "b">>)},
           ts \in {Absent, S(<<"1">>)},
           nonce \in {Absent, S(<<"4", "2">>)},
           ext \in {Absent} \cup ExtValues}

\* Request bodies that carry no credential: not JSON at all, and JSON values
\* without a usable authorization entry.
NotJson ==
    S(<<"n", "o", "t", " ", "j", "s", "o", "n">>)

OtherBodies ==
    {NotJson,
     <<>>,
     json_dumps(EmptyDict),
     json_dumps(PyList(<<PyStr(KeyAuthorization)>>)),
     json_dumps(PyList(<<>>)),
     json_dumps(PyStr(KeyAuthorization)),
     json_dumps(PyInt(1)),
     json_dumps(None),
     json_dumps(PyDict(KeyAuthorization :> PyInt(1))),
     json_dumps(PyDict(KeyAuthorization :> None))}

\* The body the application posts for a header: {"authorization": header}
BodyOf(header) == json_dumps(PyDict(KeyAuthorization :> PyStr(header)))

\* Query parameters of userinfo calls: 'access_token=good',
\* 'access_token=badtoken', 'foo=bar', 'access_token' (no value),
\* 'access_token=badtoken=x', 'access_token=' and the empty parameter.
QueryParams ==
    {AccessToken \o S(<<"=", "g", "o", "o", "d">>),
     AccessToken \o <<61>> \o BadToken,
     S(<<"f", "o", "o", "=", "b", "a", "r">>),
     AccessToken,
     AccessToken \o <<61>> \o BadToken \o S(<<"=", "x">>),
     AccessToken \o <<61>>,
     <<>>}

\* The most parameters a query string of the model has.
MaxParams == 2

RECURSIVE ParamLists(_)
ParamLists(n) ==
    IF n = 0 THEN {<<>>}
    ELSE ParamLists(n - 1)
         \cup {Append(l, q) : l \in {x \in ParamLists(n - 1) : Len(x) = n - 1},
                              q \in QueryParams}

\* The userinfo calls: the URL without '?', or with '?' and parameters.
UserinfoCalls ==
    {[mark |-> FALSE, params |-> <<>>]}
    \cup {[mark |-> TRUE, params |-> l] : l \in ParamLists(MaxParams)}

\* The URL of a userinfo call.
UrlOf(call) ==
    IF call.mark THEN UserinfoUrl \o <<63>> \o Join(<<38>>, call.params) ELSE UserinfoUrl

(***************************************************************************)
(* One test execution.  The `app` fixture of the application's conftest    *)
(* runs first and calls configure_app; pytest then runs client() up to its *)
(* yield, the test body, and the rest of client() whatever the body did.   *)
(***************************************************************************)
\* Calls a test body makes while the mocks are installed.
BodyCalls ==
    {[method |-> "POST", url |-> AuthenticateUrl, body |-> b, now |-> n] :
        b \in {BodyOf(build_header(S(<<"c", "1">>),
                                   ScopesOf(<<PyStr(S(<<"r", "e", "a", "d">>))>>), 1, 42)),
               json_dumps(EmptyDict), NotJson},
        n \in {d \in Nows : d.month = 4}}
    \cup {[method |-> m, url |-> u, body |-> <<>>, now |-> None] :
            m \in {"GET"},
            u \in {UserinfoUrl,
                   UserinfoUrl \o <<63>> \o AccessToken \o S(<<"=", "g", "o", "o", "d">>),
                   UserinfoUrl \o <<63>> \o AccessToken \o <<61>> \o BadToken,
                   AuthenticateUrl}}

Init ==
    /\ app \in [auth : BOOLEAN, auth0 : BOOLEAN, db : BOOLEAN]
    /\ pc = "start"
    /\ active = FALSE
    /\ bindings = <<>>
    /\ dbCalls = <<>>
    /\ outcome = "none"
    /\ request = NoRequest
    /\ response = NoResponse

\* The app fixture: configure_app(app)
AppFixture ==
    /\ pc = "start"
    /\ dbCalls' = configure_app(app, dbCalls)
    /\ pc' = "configured"
    /\ UNCHANGED <<app, active, bindings, outcome, request, response>>

\* client(app) up to `yield client`
ClientSetup ==
    /\ pc = "configured"
    /\ active' = TRUE
    /\ bindings' = client_setup(app, bindings)
    /\ pc' = "body"
    /\ UNCHANGED <<app, dbCalls, outcome, request, response>>

\* The test body makes an HTTP call.
Send(call) ==
    /\ pc = "body"
    /\ active
    /\ request' = call
    /\ response' = Dispatch(bindings, call)
    /\ UNCHANGED <<app, pc, active, bindings, dbCalls, outcome>>

\* The test body returns or fails.
TestBodyEnds(result) ==
    /\ pc = "body"
    /\ outcome' = result
    /\ pc' = "teardown"
    /\ UNCHANGED <<app, active, bindings, dbCalls, request, response>>

\* client(app) after its yield: both `with` blocks are left.
ClientTeardown ==
    /\ pc = "teardown"
    /\ active' = FALSE
    /\ bindings' = client_teardown(bindings)
    /\ pc' = "done"
    /\ UNCHANGED <<app, dbCalls, outcome, request, response>>

\* pytest goes on to the next test of the same application.
NextTest ==
    /\ pc = "done"
    /\ pc' = "start"
    /\ dbCalls' = <<>>
    /\ outcome' = "none"
    /\ request' = NoRequest
    /\ response' = NoResponse
    /\ UNCHANGED <<app, active, bindings>>

Next ==
    \/ AppFixture
    \/ ClientSetup
    \/ \E call \in BodyCalls : Send(call)
    \/ \E result \in {"passed", "failed"} : TestBodyEnds(result)
    \/ ClientTeardown
    \/ NextTest

Spec == Init /\ [][Next]_vars

(***************************************************************************)
(* The codec on its own: build_header and parse_header applied to inputs.  *)
(***************************************************************************)
Idle ==
    /\ app = [auth |-> FALSE, auth0 |-> FALSE, db |-> FALSE]
    /\ active = FALSE
    /\ bindings = <<>>
    /\ dbCalls = <<>>
    /\ outcome = "none"

InitCodec ==
    /\ Idle
    /\ pc = "call"
    /\ response = NoResponse
    /\ \/ request \in {[fn |-> "build_header", client_id |-> c, ext_data |-> e,
                        ts |-> t, nonce |-> n] :
                            c \in ClientIds, e \in ExtDatas,
                            t \in {1, 1500000000}, n \in {0, 42, 100000}}
       \/ request \in {[fn |-> "parse_header", prefix |-> p, fields |-> f] :
                            p \in {HawkPrefix, S(<<"h", "a", "w", "k", " ">>), <<>>},
                            f \in Credentials}

CallBuildHeader ==
    /\ pc = "call"
    /\ request.fn = "build_header"
    /\ response' = [header |-> build_header(request.client_id, request.ext_data,
                                            request.ts, request.nonce)]
    /\ pc' = "built"
    /\ UNCHANGED <<app, active, bindings, dbCalls, outcome, request>>

\* The header just built is parsed.
CallParseBuilt ==
    /\ pc = "built"
    /\ response' = [header |-> response.header,
                    parsed |-> parse_header(PyStr(response.header))]
    /\ pc' = "parsed"
    /\ UNCHANGED <<app, active, bindings, dbCalls, outcome, request>>

\* An input header is parsed.
CallParseHeader ==
    /\ pc = "call"
    /\ request.fn = "parse_header"
    /\ LET header == HeaderText(request.prefix, request.fields) IN
       response' = [header |-> header, parsed |-> parse_header(PyStr(header))]
    /\ pc' = "parsed"
    /\ UNCHANGED <<app, active, bindings, dbCalls, outcome, request>>

NextCodec == CallBuildHeader \/ CallParseBuilt \/ CallParseHeader

SpecCodec == InitCodec /\ [][NextCodec]_vars

(***************************************************************************)
(* mock_auth_taskcluster on its own                                        *)
(***************************************************************************)
InitTaskcluster ==
    /\ Idle
    /\ pc = "call"
    /\ response = NoResponse
    /\ \/ request \in {[fn |-> "mock_auth_taskcluster", form |-> "credential",
                        prefix |-> p, fields |-> f, now |-> n] :
                            p \in {HawkPrefix, <<>>}, f \in Credentials, n \in Nows}
       \/ request \in {[fn |-> "mock_auth_taskcluster", form |-> "other",
                        body |-> b, now |-> n] : b \in OtherBodies, n \in Nows}

\* The body of the request the mock receives.
RequestBody(r) ==
    IF r.form = "credential" THEN BodyOf(HeaderText(r.prefix, r.fields)) ELSE r.body

CallMockTaskcluster ==
    /\ pc = "call"
    /\ request.fn = "mock_auth_taskcluster"
    /\ response' = mock_auth_taskcluster(RequestBody(request), request.now)
    /\ pc' = "returned"
    /\ UNCHANGED <<app, active, bindings, dbCalls, outcome, request>>

SpecTaskcluster == InitTaskcluster /\ [][CallMockTaskcluster]_vars

(***************************************************************************)
(* mock_auth_auth0 on its own                                              *)
(***************************************************************************)
InitAuth0 ==
    /\ Idle
    /\ pc = "call"
    /\ response = NoResponse
    /\ request \in {[fn |-> "mock_auth_auth0", mark |-> c.mark, params |-> c.params] :
                        c \in UserinfoCalls}

CallMockAuth0 ==
    /\ pc = "call"
    /\ request.fn = "mock_auth_auth0"
    /\ response' = mock_auth_auth0(UrlOf(request))
    /\ pc' = "returned"
    /\ UNCHANGED <<app, active, bindings, dbCalls, outcome, request>>

SpecAuth0 == InitAuth0 /\ [][CallMockAuth0]_vars

(***************************************************************************)
(* Properties of mock_auth_auth0                                           *)
(***************************************************************************)
\* The name and the value of a query parameter, as a URL gives them: the
\* text before the first '=' and the text after it.
ParamName(p) == IF Find(p, 61) = 0 THEN p ELSE SubSeq(p, 1, Find(p, 61) - 1)
ParamValue(p) == IF Find(p, 61) = 0 THEN <<>> ELSE SubSeq(p, Find(p, 61) + 1, Len(p))

\* The access_token values of a call, in the order of the query string.
TokensOf(call) ==
    [i \in 1..Len(SelectSeq(call.params, LAMBDA p : ParamName(p) = AccessToken)) |->
        ParamValue(SelectSeq(call.params, LAMBDA p : ParamName(p) = AccessToken)[i])]

\* Whether a call is to be refused: no access_token, or the sentinel.
Refused(tokens) == tokens = <<>> \/ tokens[Len(tokens)] = BadToken

\* C2 - Userinfo sentinel: every userinfo call gets status 200; the body is
\* the plain text 'Unauthorized' when the query string has no access_token
\* parameter (an empty query string included) or access_token is 'badtoken',
\* and the fixed identity record as JSON for any other access_token.
C2_UserinfoSentinel ==
    (pc = "returned" /\ request.fn = "mock_auth_auth0") =>
        /\ ~response.raised
        /\ response.value.http_code = 200
        /\ response.value.body =
             IF Refused(TokensOf(request)) THEN Unauthorized
             ELSE json_dumps(AUTH0_DUMMY_USERINFO)

(***************************************************************************)
(* Properties of mock_auth_taskcluster                                     *)
(***************************************************************************)
\* The entry `key` of the JSON object in a body text, NoEntry if there is none.
NoEntry == [t |-> "missing"]

EntryOf(loaded, key) ==
    IF loaded.raised \/ loaded.value.t # "dict" THEN NoEntry
    ELSE IF key \notin DOMAIN loaded.value.v THEN NoEntry
    ELSE loaded.value.v[key]

BodyEntry(resp, key) == EntryOf(json_loads(resp.value.body), key)

\* Whether a response is one of the two outcomes of the responder.
IsAuthOutcome(resp) ==
    /\ ~resp.raised
    /\ resp.value.headers = (ContentType :> ApplicationJson)
    /\ \/ /\ resp.value.http_code = 200
          /\ BodyEntry(resp, KeyStatus) = PyStr(AuthSuccess)
       \/ /\ resp.value.http_code = 401
          /\ BodyEntry(resp, KeyStatus) = PyStr(AuthFailure)
          /\ BodyEntry(resp, KeyMessage).t = "str"

IsFailure(resp, message) ==
    /\ ~resp.raised
    /\ resp.value.http_code = 401
    /\ BodyEntry(resp, KeyStatus) = PyStr(AuthFailure)
    /\ BodyEntry(resp, KeyMessage) = PyStr(message)

\* The header of a credential request.
HeaderOf(r) == HeaderText(r.prefix, r.fields)

\* What the claim asks of a request whose header parse_header rejects.
FailsAs(resp, parsed) == parsed.raised => IsFailure(resp, parsed.message)

\* C3 - No error propagates past the MAC responder: for every request body
\* mock_auth_taskcluster returns a response instead of raising, either 200
\* with status 'auth-success' or 401 with status 'auth-failure' and a message
\* ('Missing authorization' for a body without an authorization field, the
\* decode error text when the header fails to decode), always with
\* Content-Type application/json.
C3_NoErrorPropagates ==
    (pc = "returned" /\ request.fn = "mock_auth_taskcluster") =>
        /\ IsAuthOutcome(response)
        /\ (request.form = "other" /\ request.body = json_dumps(EmptyDict))
              => IsFailure(response, MsgMissingAuthorization)
        /\ request.form = "credential"
              => FailsAs(response, parse_header(PyStr(HeaderOf(request))))

\* ext_data['scopes'] when ext_data is a mapping with that entry, else [].
ScopesEntry(ext_data) ==
    IF ext_data.t = "dict" /\ KeyScopes \in DOMAIN ext_data.v
    THEN ext_data.v[KeyScopes] ELSE PyList(<<>>)

\* What the claim asks of a request whose header parse_header accepts.
SucceedsAs(resp, parsed) ==
    ~parsed.raised =>
        /\ ~resp.raised
        /\ resp.value.http_code = 200
        /\ BodyEntry(resp, KeyStatus) = PyStr(AuthSuccess)
        /\ BodyEntry(resp, KeyScheme) = PyStr(SchemeHawk)
        /\ BodyEntry(resp, KeyClientId) = PyStr(parsed.value.client_id)
        /\ BodyEntry(resp, KeyScopes) = ScopesEntry(parsed.value.ext_data)

\* C4 - MAC responder success: whenever parse_header succeeds on the
\* authorization header, mock_auth_taskcluster returns 200 with status
\* 'auth-success', scheme 'hawk', clientId the decoded id and scopes the
\* 'scopes' entry of the decoded extension data, or [] when it has none.
C4_SuccessWheneverParsed ==
    (pc = "returned" /\ request.fn = "mock_auth_taskcluster"
        /\ request.form = "credential") =>
        SucceedsAs(response, parse_header(PyStr(HeaderOf(request))))

\* The part of a response the claim compares: the status code, and the
\* status, clientId and scopes of the body.
OutcomeOf(resp) ==
    IF resp.raised THEN <<"raised", resp.type>>
    ELSE <<resp.value.http_code, BodyEntry(resp, KeyStatus),
           BodyEntry(resp, KeyClientId), BodyEntry(resp, KeyScopes)>>

\* The mac values a header can carry: the forged ones and the digest
\* build_header computes for its other fields.
MacValues(f) == ForgedMacs \cup {DigestOf(f)}

\* Whether every field before mac is in the header.
CarriesAll(f) == f[1] # Absent /\ f[2] # Absent /\ f[3] # Absent /\ f[5] # Absent

\* C10 - Unverified digest: two authorization headers that start with 'Hawk ',
\* carry id, ts, nonce and mac and differ only in the value of mac get the
\* same status, clientId and scopes from mock_auth_taskcluster; a forged mac
\* is accepted like the digest build_header computes.
C10_UnverifiedDigest ==
    (pc = "returned" /\ request.fn = "mock_auth_taskcluster"
        /\ request.form = "credential" /\ request.prefix = HawkPrefix
        /\ CarriesAll(request.fields)) =>
        \A mac \in MacValues(request.fields) :
            OutcomeOf(mock_auth_taskcluster(
                        BodyOf(HeaderText(HawkPrefix, [request.fields EXCEPT ![5] = mac])),
                        request.now))
            = OutcomeOf(response)

\* C10 witness: a header with a forged mac was accepted with its scopes.
C10_Witness ==
    /\ pc = "returned"
    /\ request.fn = "mock_auth_taskcluster"
    /\ request.form = "credential"
    /\ request.prefix = HawkPrefix
    /\ CarriesAll(request.fields)
    /\ request.fields[5] \in ForgedMacs
    /\ ~response.raised
    /\ response.value.http_code = 200
    /\ BodyEntry(response, KeyScopes) = PyList(<<PyStr(S(<<"r", "e", "a", "d">>))>>)

(***************************************************************************)
(* Properties of build_header and parse_header                             *)
(***************************************************************************)
\* The extension mapping a credential stands for: none given is the empty one.
MappingOf(ext_data) == IF ext_data = None THEN EmptyDict ELSE ext_data

\* C1 - Round-trip: parse_header(build_header(client_id, ext_data)) returns
\* the same client id and an extension mapping equal to ext_data, whatever
\* characters the id and the base64 text of the extension contain.
C1_RoundTrip ==
    (pc = "parsed" /\ request.fn = "build_header") =>
        /\ ~response.parsed.raised
        /\ response.parsed.value.client_id = request.client_id
        /\ response.parsed.value.ext_data = MappingOf(request.ext_data)

\* The positions in FieldKeys of id, mac, ts and nonce, in the order
\* parse_header looks for them.
RequiredFields == <<1, 5, 2, 3>>

\* Whether an input header lacks a field.
Lacks(f, i) == f[i] = Absent

LacksRequired(f) == \E k \in 1..Len(RequiredFields) : Lacks(f, RequiredFields[k])

\* Whether an input header carries a field with a value of the header pattern.
Carries(f, i) ==
    /\ f[i] # Absent
    /\ f[i] # <<>>
    /\ \A k \in 1..Len(f[i]) : IsValueChar(f[i][k])

CarriesRequired(f) == \A k \in 1..Len(RequiredFields) : Carries(f, RequiredFields[k])

\* The first required key an input header does not carry.
FirstNotCarried(f) ==
    FieldKeys[RequiredFields[CHOOSE k \in 1..Len(RequiredFields) :
                /\ ~Carries(f, RequiredFields[k])
                /\ \A j \in 1..(k - 1) : Carries(f, RequiredFields[j])]]

\* C5 - Missing-field detection, as stated: for every header string that
\* lacks at least one of id, ts, nonce, mac, parse_header fails with
\* 'Missing header part <k>' and never returns a client id.
C5_MissingFieldEveryHeader ==
    (pc = "parsed" /\ request.fn = "parse_header" /\ LacksRequired(request.fields)) =>
        /\ response.parsed.raised
        /\ \E i \in 1..Len(RequiredParts) :
              response.parsed.message = MsgMissingHeaderPart \o RequiredParts[i]

\* C5 - Missing-field detection, amended: for every header string that lacks
\* at least one of id, ts, nonce, mac, parse_header fails and never returns a
\* client id; when the header starts with 'Hawk ' the error is 'Missing header
\* part <k>', k the first of id, mac, ts, nonce the header does not carry with
\* a value of the header pattern, and otherwise it is 'Missing Hawk prefix'.
C5_MissingFieldAfterPrefix ==
    (pc = "parsed" /\ request.fn = "parse_header" /\ LacksRequired(request.fields)) =>
        /\ response.parsed.raised
        /\ response.parsed.message =
             IF request.prefix = HawkPrefix
             THEN MsgMissingHeaderPart \o FirstNotCarried(request.fields)
             ELSE MsgMissingHawkPrefix

\* C5 witness: a header with the prefix and every field but nonce was refused
\* for its nonce.
C5_Witness ==
    /\ pc = "parsed"
    /\ request.fn = "parse_header"
    /\ request.prefix = HawkPrefix
    /\ Lacks(request.fields, 3)
    /\ \A i \in {1, 2, 5} : Carries(request.fields, i)
    /\ response.parsed.raised
    /\ response.parsed.message = MsgMissingHeaderPart \o KeyNonce

\* Base64 as RFC 4648 defines it: groups of four characters of the alphabet,
\* the last one padded with '=' to four.
IsStrictBase64(s) ==
    /\ Len(s) % 4 = 0
    /\ \A i \in 1..Len(s) :
          \/ B64Val(s[i]) < 64
          \/ s[i] = 61 /\ i >= Len(s) - 1 /\ (i = Len(s) - 1 => s[Len(s)] = 61)

\* json.loads(b64decode(ext).decode('utf-8')), or what it raises.
JsonOfText(text) == IF text.raised THEN text ELSE json_loads(text.value)
JsonOfBytes(bytes) == IF bytes.raised THEN bytes ELSE JsonOfText(utf8_decode(bytes.value, 1, <<>>))
JsonOfExt(ext) == JsonOfBytes(b64decode(ext))

\* The headers the claim is about: 'Hawk ' and the four required fields.
IsCompleteHeader(r) ==
    r.fn = "parse_header" /\ r.prefix = HawkPrefix /\ CarriesRequired(r.fields)

\* C8 - Ext decode resilience, as stated: for every header that starts with
\* 'Hawk ' and carries id, ts, nonce and mac, parse_header does not raise;
\* when ext is absent, or is not valid base64, or does not decode to valid
\* JSON, it returns the client id and an empty extension mapping.
C8_ExtResilienceValidBase64 ==
    (pc = "parsed" /\ IsCompleteHeader(request)) =>
        /\ ~response.parsed.raised
        /\ response.parsed.value.client_id = request.fields[1]
        /\ (\/ Lacks(request.fields, 4)
            \/ ~IsStrictBase64(request.fields[4])
            \/ JsonOfExt(request.fields[4]).raised)
              => response.parsed.value.ext_data = EmptyDict

\* C8 - Ext decode resilience, amended: for every header that starts with
\* 'Hawk ' and carries id, ts, nonce and mac, parse_header does not raise;
\* when ext is absent, or is outside the header pattern, or b64decode, the
\* UTF-8 decoding or json.loads raises on it, it returns the client id and an
\* empty extension mapping.  (b64decode skips the characters outside the
\* base64 alphabet, so text that is not valid base64 can decode.)
C8_ExtResilienceDecoder ==
    (pc = "parsed" /\ IsCompleteHeader(request)) =>
        /\ ~response.parsed.raised
        /\ response.parsed.value.client_id = request.fields[1]
        /\ (\/ ~Carries(request.fields, 4)
            \/ JsonOfExt(request.fields[4]).raised)
              => response.parsed.value.ext_data = EmptyDict

\* C8 witness: a complete header whose ext decodes to bytes that are not JSON
\* was parsed to its client id and the empty mapping.
C8_Witness ==
    /\ pc = "parsed"
    /\ IsCompleteHeader(request)
    /\ Carries(request.fields, 4)
    /\ ~b64decode(request.fields[4]).raised
    /\ JsonOfExt(request.fields[4]).raised
    /\ ~response.parsed.raised
    /\ response.parsed.value.client_id = request.fields[1]
    /\ response.parsed.value.ext_data = EmptyDict

\* The key of a piece ' key="value"' of a header, <<>> if it has another form.
KeyOfPiece(piece) ==
    IF /\ Len(piece) >= 5
       /\ piece[1] = 32
       /\ Find(piece, 61) > 2
       /\ Find(piece, 34) = Find(piece, 61) + 1
       /\ piece[Len(piece)] = 34
       /\ \A k \in (Find(piece, 34) + 1)..(Len(piece) - 1) : piece[k] # 34
    THEN SubSeq(piece, 2, Find(piece, 61) - 1)
    ELSE <<>>

\* The keys of the pieces that follow `head` in a header, <<>> if the header
\* does not start with `head` and a comma.
KeysOfPieces(pieces) == [i \in 1..(Len(pieces) - 1) |-> KeyOfPiece(pieces[i + 1])]

KeysAfter(header, head) ==
    IF StartsWith(header, Append(head, 44))
    THEN KeysOfPieces(Split(SubSeq(header, Len(head) + 1, Len(header)), 44))
    ELSE <<>>

\* The keys a header has after id, for the extension data it was built from.
KeysFor(ext_data) ==
    <<KeyTs, KeyNonce>> \o (IF ext_data # None THEN <<KeyExt>> ELSE <<>>) \o <<KeyMac>>

\* C9 - Field order invariant: the header build_header produces is 'Hawk '
\* followed by key="value" pairs with the keys id, ts, nonce, then ext only
\* if extension data was given, then mac; mac is the last key and occurs once.
C9_FieldOrder ==
    (pc \in {"built", "parsed"} /\ request.fn = "build_header") =>
        KeysAfter(response.header, HawkPrefix \o FormatPart(KeyId, request.client_id))
        = KeysFor(request.ext_data)

\* C9 witness: a header built with extension data has ext between nonce and mac.
C9_Witness ==
    /\ pc = "built"
    /\ request.fn = "build_header"
    /\ request.ext_data # None
    /\ KeysAfter(response.header, HawkPrefix \o FormatPart(KeyId, request.client_id))
       = <<KeyTs, KeyNonce, KeyExt, KeyMac>>

(***************************************************************************)
(* Properties of a test execution                                          *)
(***************************************************************************)
\* The registrations a registry holds.
Registered(registry) == {registry[i] : i \in 1..Len(registry)}

\* The registrations an application's capabilities call for.
BindingsFor(a) ==
    (IF a.auth THEN {TaskclusterBinding} ELSE {})
    \cup (IF a.auth0 THEN {Auth0Binding} ELSE {})

\* C6 - Registry lifecycle invariant: the registry has no binding while it is
\* inactive (before setup and after teardown, also after a failing test
\* body); while it is active its bindings are exactly the MAC responder on
\* POST to the authentication URL iff the app has 'auth', and the userinfo
\* responder on GET to the userinfo pattern iff the app has 'auth0'; a test
\* execution ends with the registry inactive.
C6_RegistryLifecycle ==
    /\ ~active => bindings = <<>>
    /\ active =>
          /\ Registered(bindings) = BindingsFor(app)
          /\ Len(bindings) = Cardinality(BindingsFor(app))
    /\ pc \in {"start", "configured", "done"} => ~active
    /\ pc \in {"body", "teardown"} => active

\* C6 witness: a test of an application with both capabilities failed
\* after a call was answered, and its teardown left the registry inactive and
\* empty.
C6_Witness ==
    /\ pc = "done"
    /\ outcome = "failed"
    /\ app.auth /\ app.auth0
    /\ request # NoRequest
    /\ ~response.raised
    /\ ~active
    /\ bindings = <<>>

\* C7 - Storage reset hook: when the application has a 'db' attribute the
\* reset (drop_all then create_all) is invoked exactly once in a test
\* execution, before the test body runs; without it the reset is not invoked.
C7_StorageReset ==
    /\ pc = "start" => dbCalls = <<>>
    /\ pc \in {"configured", "body", "teardown", "done"} =>
          dbCalls = IF app.db THEN <<"drop_all", "create_all">> ELSE <<>>

\* C7 witness: the test body of an application with 'db' is running and has
\* made a call, the reset having been invoked once.
C7_Witness ==
    /\ pc = "body"
    /\ app.db
    /\ request # NoRequest
    /\ dbCalls = <<"drop_all", "create_all">>

====
